---- MODULE Spec2Model ----
(***************************************************************************)
(* vmxtool, final variant (src/unnamed/part_001 lines 485-1023): the       *)
(* layout-preserving editor of VMware dictionary files.                    *)
(*                                                                         *)
(* A Go string is modelled as a sequence of one-character strings, a file  *)
(* as the sequence of its lines plus whether its last line ends in "\n".   *)
(* Indices in the string helpers are Go's (0-based, -1 for "not found").   *)
(***************************************************************************)
EXTENDS Integers, Sequences, FiniteSets, TLC

VARIABLES
    file,    \* the path on disk: [exists, lines, nl]
    file0,   \* history: the file as it was when the behaviour started
    doc,     \* Dictionary.Entries of the library-level session
    pc,      \* position of the library-level session
    last,    \* the last API call of the session and what it returned
    hist,    \* history: the calls of a scripted session, in order
    cli      \* the command-line invocations (run), one record per process

vars == <<file, file0, doc, pc, last, hist, cli>>

-----------------------------------------------------------------------------
(* Characters.                                                             *)

Q  == "\""          \* the double quote
BS == "\\"          \* the backslash
LongS == "LATIN SMALL LETTER LONG S"  \* U+017F, one rune: folds to s, is its own lower case

Str0 == <<>>

\* unicode.ToLower on one rune
ToLowerRune(c) ==
    CASE c = "S" -> "s"
      [] c = "B" -> "b"
      [] OTHER   -> c

\* the canonical member of a rune's unicode.SimpleFold orbit (S, s, U+017F)
FoldRune(c) ==
    CASE c \in {"S", "s", LongS} -> "s"
      [] c \in {"B", "b"}        -> "b"
      [] OTHER                   -> c

\* strings.ToLower
ToLower(s) == [i \in 1..Len(s) |-> ToLowerRune(s[i])]

\* strings.EqualFold
EqualFold(s, t) ==
    /\ Len(s) = Len(t)
    /\ \A i \in 1..Len(s) : FoldRune(s[i]) = FoldRune(t[i])

-----------------------------------------------------------------------------
(* The strings package, as far as the tool uses it.                        *)

\* Go's s[lo:hi]
Slice(s, lo, hi) == SubSeq(s, lo + 1, hi)

RECURSIVE TrimLeftIn(_, _)
TrimLeftIn(s, cut) ==
    IF s # <<>> /\ Head(s) \in cut THEN TrimLeftIn(Tail(s), cut) ELSE s

RECURSIVE TrimRightIn(_, _)
\* strings.TrimRight(s, cutset)
TrimRightIn(s, cut) ==
    IF s # <<>> /\ s[Len(s)] \in cut
    THEN TrimRightIn(SubSeq(s, 1, Len(s) - 1), cut)
    ELSE s

SpaceRunes == {" ", "\t"}

\* strings.TrimSpace
TrimSpace(s) == TrimRightIn(TrimLeftIn(s, SpaceRunes), SpaceRunes)

\* strings.Index(s, c) for a one-character c
Index(s, c) ==
    IF \E i \in 1..Len(s) : s[i] = c
    THEN (CHOOSE i \in 1..Len(s) : s[i] = c /\ \A j \in 1..(i - 1) : s[j] # c) - 1
    ELSE -1

\* strings.Contains(s, c) for a one-character c
Contains(s, c) == \E i \in 1..Len(s) : s[i] = c

\* strings.HasPrefix(s, c) for a one-character c
HasPrefix(s, c) == s # <<>> /\ s[1] = c

\* strings.SplitN(s, "=", 2): one part when s holds no "=", else two
SplitN2(s) ==
    LET i == Index(s, "=") IN
    IF i = -1 THEN <<s>>
    ELSE <<Slice(s, 0, i), Slice(s, i + 1, Len(s))>>

\* mutant: the first double quote closes the value, escaped or not
findClosingQuote_AnyQuote(s, startIdx) ==
    LET hit(i) == i >= startIdx /\ s[i + 1] = Q IN
    IF \E i \in 0..(Len(s) - 1) : hit(i)
    THEN CHOOSE i \in 0..(Len(s) - 1) : hit(i) /\ \A j \in 0..(i - 1) : ~hit(j)
    ELSE -1

RECURSIVE findClosingQuote(_, _)
findClosingQuote(s, startIdx) ==
    IF startIdx >= Len(s) THEN -1
    ELSE IF s[startIdx + 1] = Q /\ ~(startIdx > 0 /\ s[startIdx] = BS)
         THEN startIdx
         ELSE findClosingQuote(s, startIdx + 1)

RECURSIVE escapeQuotes(_)
\* strings.ReplaceAll(value, `"`, `\"`)
escapeQuotes(value) ==
    IF value = <<>> THEN <<>>
    ELSE IF Head(value) = Q
         THEN <<BS, Q>> \o escapeQuotes(Tail(value))
         ELSE <<Head(value)>> \o escapeQuotes(Tail(value))

RECURSIVE unescapeQuotes(_)
\* strings.ReplaceAll(value, `\"`, `"`): leftmost, non-overlapping matches
unescapeQuotes(value) ==
    IF value = <<>> THEN <<>>
    ELSE IF Len(value) >= 2 /\ value[1] = BS /\ value[2] = Q
         THEN <<Q>> \o unescapeQuotes(SubSeq(value, 3, Len(value)))
         ELSE <<Head(value)>> \o unescapeQuotes(Tail(value))

\* `"` + escapeQuotes(value) + `"`
Quoted(value) == <<Q>> \o escapeQuotes(value) \o <<Q>>

-----------------------------------------------------------------------------
(* Entry and the body of LoadDictionary's scanner loop.                    *)

Entry(original, key, value, comment, space, isComment, isBlank) ==
    [Original |-> original, Key |-> key, Value |-> value,
     InlineComment |-> comment, InlineCommentSpace |-> space,
     IsComment |-> isComment, IsBlank |-> isBlank]

\* the quoted-value branch: valueAndComment starts with a double quote
ParseQuoted(vac) ==
    LET endQuoteIdx == findClosingQuote(vac, 1) IN
    IF endQuoteIdx # -1
    THEN LET remainder  == Slice(vac, endQuoteIdx + 1, Len(vac))
             commentIdx == Index(remainder, "#")
             found      == Len(remainder) > 0 /\ commentIdx # -1
         IN [value   |-> unescapeQuotes(Slice(vac, 1, endQuoteIdx)),
             comment |-> IF found THEN Slice(remainder, commentIdx, Len(remainder))
                         ELSE Str0,
             space   |-> IF found THEN Slice(remainder, 0, commentIdx) ELSE Str0]
    ELSE [value |-> vac, comment |-> Str0, space |-> Str0]

\* the unquoted-value branch
ParseUnquoted(vac) ==
    LET commentIdx == Index(vac, "#") IN
    IF commentIdx # -1
    THEN LET beforeComment == Slice(vac, 0, commentIdx)
             value         == TrimSpace(beforeComment)
         IN [value   |-> value,
             comment |-> Slice(vac, commentIdx, Len(vac)),
             space   |-> IF Len(value) < Len(beforeComment)
                         THEN Slice(beforeComment, Len(value), Len(beforeComment))
                         ELSE Str0]
    ELSE [value |-> vac, comment |-> Str0, space |-> Str0]

\* one iteration of the scanner loop: the Entry appended for one line
ParseLine(original) ==
    LET trimmed == TrimSpace(original)
        parts   == SplitN2(trimmed)
    IN
    IF trimmed = <<>>
    THEN Entry(original, Str0, Str0, Str0, Str0, FALSE, TRUE)
    ELSE IF HasPrefix(trimmed, "#") \/ Len(parts) # 2
    THEN Entry(original, Str0, Str0, Str0, Str0, TRUE, FALSE)
    ELSE LET key == TrimSpace(parts[1])
             vac == TrimSpace(parts[2])
             p   == IF HasPrefix(vac, Q) THEN ParseQuoted(vac) ELSE ParseUnquoted(vac)
         IN Entry(original, key, p.value, p.comment, p.space, FALSE, FALSE)

\* the Entries LoadDictionary builds from the lines the scanner yields
ParseLines(lines) == [i \in 1..Len(lines) |-> ParseLine(lines[i])]

-----------------------------------------------------------------------------
(* Save and Print, line by line.                                           *)

\* the line Save writes for one entry
SaveLine(entry) ==
    IF entry.IsBlank THEN Str0
    ELSE IF entry.IsComment THEN entry.Original
    ELSE IF entry.Key # <<>>
    THEN LET formattedValue == Quoted(entry.Value)
             keyPart == IF Contains(entry.Original, "=")
                        THEN TrimRightIn(SplitN2(entry.Original)[1], {" ", "\t"})
                        ELSE entry.Key
             line    == keyPart \o <<" ", "=", " ">> \o formattedValue
         IN IF entry.InlineComment # <<>>
            THEN line \o entry.InlineCommentSpace \o entry.InlineComment
            ELSE line
    ELSE entry.Original

\* the line Print prints for one entry
PrintLine(entry) ==
    IF entry.IsBlank THEN Str0
    ELSE IF entry.IsComment THEN entry.Original
    ELSE IF entry.Key # <<>>
    THEN LET line == entry.Key \o <<" ", "=", " ">> \o Quoted(entry.Value)
         IN IF entry.InlineComment # <<>>
            THEN line \o entry.InlineCommentSpace \o entry.InlineComment
            ELSE line
    ELSE entry.Original

SaveLines(entries)  == [i \in 1..Len(entries) |-> SaveLine(entries[i])]
PrintLines(entries) == [i \in 1..Len(entries) |-> PrintLine(entries[i])]

-----------------------------------------------------------------------------
(* The Dictionary methods, as functions of d.Entries.                      *)

\* mutant: the keys are compared as written, without strings.ToLower
findEntry_CaseSensitive(entries, key) ==
    LET hit(i) == entries[i].Key = key
    IN IF \E i \in 1..Len(entries) : hit(i)
       THEN CHOOSE i \in 1..Len(entries) : hit(i) /\ \A j \in 1..(i - 1) : ~hit(j)
       ELSE 0

\* index of the entry findEntryCaseInsensitive returns, 0 for nil
findEntryCaseInsensitive(entries, key) ==
    LET lowerKey == ToLower(key)
        hit(i)   == ToLower(entries[i].Key) = lowerKey
    IN IF \E i \in 1..Len(entries) : hit(i)
       THEN CHOOSE i \in 1..Len(entries) : hit(i) /\ \A j \in 1..(i - 1) : ~hit(j)
       ELSE 0

\* mutant: a key that is not stored yet is stored in lower case
normalizeKeyCase_Lower(entries, key) ==
    LET i == findEntryCaseInsensitive(entries, key) IN
    IF i # 0 THEN entries[i].Key ELSE ToLower(key)

normalizeKeyCase(entries, key) ==
    LET i == findEntryCaseInsensitive(entries, key) IN
    IF i # 0 THEN entries[i].Key ELSE key

\* mutant: a key exists only when it is stored in the very same case
KeyExists_SameCase(entries, key) == \E i \in 1..Len(entries) : entries[i].Key = key

\* Dictionary.KeyExists
KeyExists(entries, key) == findEntryCaseInsensitive(entries, key) # 0

\* the Entry literal of Add and of Set's append branch
NewEntry(key, value) ==
    Entry(key \o <<" ", "=", " ">> \o Quoted(value), key, value, Str0, Str0, FALSE, FALSE)

\* mutant: Add without its KeyExists check
Add_NoDuplicateCheck(entries, key, value) ==
    [entries |-> Append(entries, NewEntry(key, value)), err |-> FALSE]

\* Dictionary.Add: the new Entries and whether an error is returned
Add(entries, key, value) ==
    IF KeyExists(entries, key)
    THEN [entries |-> entries, err |-> TRUE]
    ELSE [entries |-> Append(entries, NewEntry(key, value)), err |-> FALSE]

\* mutant: the updated line is rebuilt from the key as given, not as stored
Set_GivenKey(entries, key, value) ==
    LET i == findEntryCaseInsensitive(entries, key) IN
    IF i # 0
    THEN LET e == entries[i]
             o == key \o <<" ", "=", " ">> \o Quoted(value)
         IN [entries EXCEPT ![i] =
                [e EXCEPT !.Value = value,
                          !.Original = IF e.InlineComment # <<>>
                                       THEN o \o e.InlineCommentSpace \o e.InlineComment
                                       ELSE o]]
    ELSE Append(entries, NewEntry(key, value))

\* Dictionary.Set: the new Entries (Set returns nothing)
Set(entries, key, value) ==
    LET i == findEntryCaseInsensitive(entries, key) IN
    IF i # 0
    THEN LET e == entries[i]
             o == e.Key \o <<" ", "=", " ">> \o Quoted(value)
         IN [entries EXCEPT ![i] =
                [e EXCEPT !.Value = value,
                          !.Original = IF e.InlineComment # <<>>
                                       THEN o \o e.InlineCommentSpace \o e.InlineComment
                                       ELSE o]]
    ELSE Append(entries, NewEntry(normalizeKeyCase(entries, key), value))

\* index of the entry Remove deletes, 0 when its loop finds none
RemoveIndex(entries, key) ==
    LET hit(i) == EqualFold(entries[i].Key, key) IN
    IF \E i \in 1..Len(entries) : hit(i)
    THEN CHOOSE i \in 1..Len(entries) : hit(i) /\ \A j \in 1..(i - 1) : ~hit(j)
    ELSE 0

\* slices.Delete(s, i, i+1), i being 0-based
Delete(s, i) == SubSeq(s, 1, i) \o SubSeq(s, i + 2, Len(s))

\* Dictionary.Remove
Remove(entries, key) ==
    LET i == RemoveIndex(entries, key) IN
    IF i # 0
    THEN [entries |-> Delete(entries, i - 1), err |-> FALSE]
    ELSE [entries |-> entries, err |-> TRUE]

\* Dictionary.Query
Query(entries, key) ==
    LET i == findEntryCaseInsensitive(entries, key) IN
    IF i # 0
    THEN [value |-> entries[i].Value, err |-> FALSE]
    ELSE [value |-> Str0, err |-> TRUE]

-----------------------------------------------------------------------------
(* The file system under the tool.                                         *)

NoFile == [exists |-> FALSE, lines |-> <<>>, nl |-> TRUE]

File(lines, nl) == [exists |-> TRUE, lines |-> lines, nl |-> nl]

\* mutant: a missing file is an error like any other
LoadDictionary_MissingIsError(f, io) ==
    IF io = "fail" \/ ~f.exists THEN [ok |-> FALSE, entries |-> <<>>, file |-> f]
    ELSE [ok |-> TRUE, entries |-> ParseLines(f.lines), file |-> f]

\* mutant: the file is opened with O_CREATE, so a missing one comes to exist
LoadDictionary_Creates(f, io) ==
    IF io = "fail" THEN [ok |-> FALSE, entries |-> <<>>, file |-> f]
    ELSE IF ~f.exists THEN [ok |-> TRUE, entries |-> <<>>, file |-> [exists |-> TRUE, lines |-> <<>>, nl |-> TRUE]]
    ELSE [ok |-> TRUE, entries |-> ParseLines(f.lines), file |-> f]

\* LoadDictionary. io is what the operating system does to os.Open and to the
\* scanner: "ok", or "fail" for any error other than the file not existing.
\* The dictionary returned is nil exactly when ok is FALSE; file is the path
\* afterwards (os.Open creates and changes nothing).
LoadDictionary(f, io) ==
    IF io = "fail" THEN [ok |-> FALSE, entries |-> <<>>, file |-> f]
    ELSE IF ~f.exists THEN [ok |-> TRUE, entries |-> <<>>, file |-> f]
    ELSE [ok |-> TRUE, entries |-> ParseLines(f.lines), file |-> f]

\* Dictionary.Save. io is what the operating system does to os.Create: "ok", or
\* "fail" (the path is left as it was). Every line is written with "\n".
Save(entries, f, io) ==
    IF io = "fail" THEN [file |-> f, err |-> TRUE]
    ELSE [file |-> File(SaveLines(entries), TRUE), err |-> FALSE]

IOs == {"ok", "fail"}

-----------------------------------------------------------------------------
(* Inputs of the library-level session.                                    *)

MaxLines == 2       \* lines of an input file, entries of a document

\* lines of the input files
LBlank   == <<>>
LSpaces  == <<" ">>
LComment == <<"#", " ", "c">>
LCanon   == <<"s", " ", "=", " ", Q, "1", Q>>                    \* s = "1"
LUpper   == <<"S", "=", "2", " ", " ", "#", "c">>                \* S=2  #c
LOther   == <<" ", "b", " ", "=", Q, "1", Q, " ", "#", "c">>     \*  b ="1" #c
LNoKey   == <<"=", Q, "1", Q>>                                   \* ="1"

Corpus == {LBlank, LComment, LCanon, LUpper, LOther}

SeqsUpTo(S, n) == UNION {[1..k -> S] : k \in 0..n}

\* no line occurs twice
Distinct(l) == \A i, j \in 1..Len(l) : l[i] = l[j] => i = j

\* a file is the lines the scanner yields and whether the last one ends in "\n";
\* without that "\n" the last line is not empty
WellFormedFile(f) ==
    f.exists /\ ~f.nl => f.lines # <<>> /\ f.lines[Len(f.lines)] # <<>>

FilesOver(S, n) ==
    {NoFile} \cup
    {f \in {File(l, nl) : l \in SeqsUpTo(S, n), nl \in BOOLEAN} : WellFormedFile(f)}

Keys   == {<<"s">>, <<"S">>, <<LongS>>, <<>>}
Values == {<<"1">>, <<Q, "2">>}

NoCall == [op |-> "none", key |-> Str0, value |-> Str0, err |-> FALSE, out |-> <<>>]

Call(op, key, value, err, out) ==
    [op |-> op, key |-> key, value |-> value, err |-> err, out |-> out]

-----------------------------------------------------------------------------
(* The command line: parseKeyValue and run.                                *)

Procs == {"p1", "p2"}

\* parseKeyValue
parseKeyValue(kv) ==
    LET parts == SplitN2(kv) IN
    IF Len(parts) # 2 THEN [key |-> Str0, value |-> Str0, err |-> TRUE]
    ELSE LET key   == TrimSpace(parts[1])
             v     == TrimSpace(parts[2])
             value == IF Len(v) >= 2 /\ v[1] = Q /\ v[Len(v)] = Q
                      THEN unescapeQuotes(Slice(v, 1, Len(v) - 1))
                      ELSE v
         IN IF key = <<>> THEN [key |-> Str0, value |-> Str0, err |-> TRUE]
            ELSE [key |-> key, value |-> value, err |-> FALSE]

\* one invocation: where it stands (pc), its arguments, the dictionary it holds,
\* what it printed (out), its exit code and the error it reported (msg); start
\* and fault are history: the file when it was invoked, the I/O fault it met
Idle ==
    [pc |-> "idle", cmd |-> "", arg |-> Str0, key |-> Str0, value |-> Str0,
     dict |-> <<>>, out |-> <<>>, exit |-> 0, msg |-> "", start |-> NoFile,
     fault |-> "none"]

Exited(c, code, msg, out) ==
    [c EXCEPT !.pc = "done", !.exit = code, !.msg = msg, !.out = out, !.dict = <<>>]

NoCli == [p \in Procs |-> Idle]

Commands == {"help", "version", "print", "add", "set", "remove", "query", "bogus"}

\* KEY=VALUE arguments:  s=1   S = "2"   =1   s
KvArgs == {<<"s", "=", "1">>, <<"S", " ", "=", " ", Q, "2", Q>>, <<"=", "1">>, <<"s">>}

\* run, from its start to the call of LoadDictionary: the command, the number n
\* of arguments after it, and the last of them
Invoke(p, cmd, n, arg) ==
    /\ cli[p].pc = "idle"
    /\ LET c  == [cli[p] EXCEPT !.cmd = cmd, !.arg = arg, !.start = file]
           kv == parseKeyValue(arg)
       IN cli' = [cli EXCEPT ![p] =
            CASE cmd \in {"help", "version"} -> Exited(c, 0, "", <<>>)
              [] cmd = "print" ->
                    IF n # 1 THEN Exited(c, 1, "usage", <<>>)
                    ELSE [c EXCEPT !.pc = "load"]
              [] cmd \in {"add", "set"} ->
                    IF n # 2 THEN Exited(c, 1, "usage", <<>>)
                    ELSE IF kv.err THEN Exited(c, 1, "invalid", <<>>)
                    ELSE [c EXCEPT !.pc = "load", !.key = kv.key, !.value = kv.value]
              [] cmd \in {"remove", "query"} ->
                    IF n # 2 THEN Exited(c, 1, "usage", <<>>)
                    ELSE [c EXCEPT !.pc = "load", !.key = arg]
              [] OTHER -> Exited(c, 1, "unknown", <<>>)]
    /\ UNCHANGED <<file, file0, doc, pc, last, hist>>

\* run, from LoadDictionary returning a dictionary to the call of Save or to the
\* return: the methods it calls on the dictionary
RunLoaded(c, entries) ==
    CASE c.cmd = "print" -> Exited(c, 0, "", PrintLines(entries))
      [] c.cmd = "add" ->
            IF KeyExists(entries, c.key) THEN Exited(c, 1, "exists", <<>>)
            ELSE LET r == Add(entries, c.key, c.value) IN
                 IF r.err THEN Exited(c, 1, "exists", <<>>)
                 ELSE [c EXCEPT !.pc = "save", !.dict = r.entries]
      [] c.cmd = "set" -> [c EXCEPT !.pc = "save", !.dict = Set(entries, c.key, c.value)]
      [] c.cmd = "remove" ->
            LET r == Remove(entries, c.key) IN
            IF r.err THEN Exited(c, 1, "missing", <<>>)
            ELSE [c EXCEPT !.pc = "save", !.dict = r.entries]
      [] c.cmd = "query" ->
            LET r == Query(entries, c.key) IN
            IF r.err THEN Exited(c, 1, "missing", <<>>)
            ELSE Exited(c, 0, "", <<r.value>>)

\* run: LoadDictionary and what follows it in memory, as one step
CliLoad(p, io) ==
    /\ cli[p].pc = "load"
    /\ LET r == LoadDictionary(file, io) IN
       /\ file' = r.file
       /\ cli' = [cli EXCEPT ![p] =
             LET c == [@ EXCEPT !.fault = IF io = "fail" THEN "open" ELSE @] IN
             IF ~r.ok THEN Exited(c, 1, "load", <<>>)
             ELSE RunLoaded(c, r.entries)]
    /\ UNCHANGED <<file0, doc, pc, last, hist>>

\* mutant: Save refuses to write a path that changed since the invocation started
CliSave_DetectsChange(p, io) ==
    /\ cli[p].pc = "save"
    /\ LET r == IF file # cli[p].start
                THEN [file |-> file, err |-> TRUE]
                ELSE Save(cli[p].dict, file, io)
       IN
       /\ file' = r.file
       /\ cli' = [cli EXCEPT ![p] =
             LET c == [@ EXCEPT !.fault = IF io = "fail" THEN "create" ELSE @] IN
             IF r.err THEN Exited(c, 1, "save", <<>>)
             ELSE Exited(c, 0, "", <<>>)]
    /\ UNCHANGED <<file0, doc, pc, last, hist>>

\* run: Save and the return
CliSave(p, io) ==
    /\ cli[p].pc = "save"
    /\ LET r == Save(cli[p].dict, file, io) IN
       /\ file' = r.file
       /\ cli' = [cli EXCEPT ![p] =
             LET c == [@ EXCEPT !.fault = IF io = "fail" THEN "create" ELSE @] IN
             IF r.err THEN Exited(c, 1, "save", <<>>)
             ELSE Exited(c, 0, "", <<>>)]
    /\ UNCHANGED <<file0, doc, pc, last, hist>>

-----------------------------------------------------------------------------
(* The library-level session: LoadDictionary, then calls of the methods,   *)
(* then Save. A scripted session (track) also records its calls in hist.   *)

Record(track, c) == hist' = IF track THEN Append(hist, c) ELSE hist

DoLoad(io, track) ==
    /\ pc \in {"init", "saved"}
    /\ LET r == LoadDictionary(file, io) IN
       /\ doc' = r.entries
       /\ file' = r.file
       /\ pc' = IF r.ok THEN "open" ELSE "failed"
       /\ last' = Call("Load", Str0, Str0, ~r.ok, <<>>)
       /\ Record(track, last')
    /\ UNCHANGED <<file0, cli>>

DoAdd(key, value, track) ==
    /\ pc = "open"
    /\ KeyExists(doc, key) \/ Len(doc) < MaxLines    \* an append needs room
    /\ LET r == Add(doc, key, value) IN
       /\ doc' = r.entries
       /\ last' = Call("Add", key, value, r.err, <<>>)
       /\ Record(track, last')
    /\ UNCHANGED <<file, file0, pc, cli>>

DoSet(key, value, track) ==
    /\ pc = "open"
    /\ KeyExists(doc, key) \/ Len(doc) < MaxLines    \* an append needs room
    /\ doc' = Set(doc, key, value)
    /\ last' = Call("Set", key, value, FALSE, <<>>)
    /\ Record(track, last')
    /\ UNCHANGED <<file, file0, pc, cli>>

DoRemove(key, track) ==
    /\ pc = "open"
    /\ LET r == Remove(doc, key) IN
       /\ doc' = r.entries
       /\ last' = Call("Remove", key, Str0, r.err, <<>>)
       /\ Record(track, last')
    /\ UNCHANGED <<file, file0, pc, cli>>

DoQuery(key, track) ==
    /\ pc = "open"
    /\ LET r == Query(doc, key) IN
       /\ last' = Call("Query", key, Str0, r.err, r.value)
       /\ Record(track, last')
    /\ UNCHANGED <<file, file0, doc, pc, cli>>

DoPrint(track) ==
    /\ pc = "open"
    /\ last' = Call("Print", Str0, Str0, FALSE, PrintLines(doc))
    /\ Record(track, last')
    /\ UNCHANGED <<file, file0, doc, pc, cli>>

DoSave(io, track) ==
    /\ pc = "open"
    /\ LET r == Save(doc, file, io) IN
       /\ file' = r.file
       /\ last' = Call("Save", Str0, Str0, r.err, <<>>)
       /\ Record(track, last')
    /\ pc' = "saved"
    /\ UNCHANGED <<file0, doc, cli>>

InitSession ==
    /\ file0 = file
    /\ doc = <<>>
    /\ pc = "init"
    /\ last = NoCall
    /\ hist = <<>>
    /\ cli = NoCli

\* Spec: one load of a file of the corpus, any calls, one save
Init ==
    /\ file \in FilesOver(Corpus, MaxLines)
    /\ file.nl /\ Distinct(file.lines)
    /\ InitSession

Next ==
    \/ \E io \in IOs : pc = "init" /\ DoLoad(io, FALSE)
    \/ \E k \in Keys, v \in Values : DoAdd(k, v, FALSE)
    \/ \E k \in Keys, v \in Values : DoSet(k, v, FALSE)
    \/ \E k \in Keys : DoRemove(k, FALSE)
    \/ \E k \in Keys : DoQuery(k, FALSE)
    \/ DoPrint(FALSE)
    \/ \E io \in IOs : DoSave(io, FALSE)

Spec == Init /\ [][Next]_vars

-----------------------------------------------------------------------------
(* SpecEdit: scripted sessions over the files of the corpus:               *)
(*   LoadDictionary, one Add or Set, Save, LoadDictionary, Query           *)
(* with the value drawn from every text of up to MaxValue characters.      *)

MaxValue == 2       \* characters of a value given to Add or Set

ValueRunes == {"v", Q, BS, "#", " "}

EditKeys   == {<<"s">>, <<"b">>}
EditValues == SeqsUpTo(ValueRunes, MaxValue)

InitEdit ==
    /\ file \in FilesOver(Corpus, MaxLines)
    /\ Distinct(file.lines)
    /\ InitSession

NextEdit ==
    \/ \E io \in IOs : Len(hist) \in {0, 3} /\ DoLoad(io, TRUE)
    \/ \E k \in EditKeys, v \in EditValues : Len(hist) = 1 /\ DoAdd(k, v, TRUE)
    \/ \E k \in EditKeys, v \in EditValues : Len(hist) = 1 /\ DoSet(k, v, TRUE)
    \/ \E io \in IOs : Len(hist) = 2 /\ DoSave(io, TRUE)
    \/ Len(hist) = 4 /\ DoQuery(hist[2].key, TRUE)

SpecEdit == InitEdit /\ [][NextEdit]_vars

-----------------------------------------------------------------------------
(* SpecLine: the parser and the serialiser on every one-line file          *)
(*   lead key eq text                                                      *)
(* (and every line text without "="), ended by "\n", by the script         *)
(*   LoadDictionary, Save, LoadDictionary, Save.                           *)

MaxText == 4        \* characters of a line after its "="

Leads    == {<<>>, <<" ">>}
LineKeys == {<<>>, <<"s">>}
Eqs      == {<<"=">>, <<" ", "=", " ">>}
Texts    == SeqsUpTo(ValueRunes, MaxText)

Lines ==
    Texts \cup {l \o k \o e \o t : l \in Leads, k \in LineKeys, e \in Eqs, t \in Texts}

InitLine ==
    /\ file \in {File(<<l>>, TRUE) : l \in Lines}
    /\ InitSession

NextLine ==
    \/ \E io \in IOs : Len(hist) \in {0, 2} /\ DoLoad(io, TRUE)
    \/ \E io \in IOs : Len(hist) \in {1, 3} /\ DoSave(io, TRUE)

SpecLine == InitLine /\ [][NextLine]_vars

-----------------------------------------------------------------------------
(* SpecCli: one invocation of the tool on a file of the corpus.            *)

InitCli ==
    /\ file \in FilesOver(Corpus, MaxLines)
    /\ Distinct(file.lines)
    /\ InitSession

NextCli ==
    \/ \E cmd \in Commands : Invoke("p1", cmd, 1, Str0)
    \/ \E cmd \in Commands, arg \in KvArgs \cup Keys : Invoke("p1", cmd, 2, arg)
    \/ \E io \in IOs : CliLoad("p1", io)
    \/ \E io \in IOs : CliSave("p1", io)

SpecCli == InitCli /\ [][NextCli]_vars

-----------------------------------------------------------------------------
(* Vocabulary of the properties.                                           *)

\* an Entry line of the specification: a stored line that carries a key
IsEntry(e) == ~e.IsBlank /\ ~e.IsComment /\ e.Key # <<>>

\* the comparison of the lookups: equal after strings.ToLower
SameKey(k1, k2) == ToLower(k1) = ToLower(k2)

HasEntryKey(entries, key) ==
    \E i \in 1..Len(entries) : IsEntry(entries[i]) /\ SameKey(entries[i].Key, key)

\* at most one Entry line per case-insensitive key
UniqueKeys(entries) ==
    \A i, j \in 1..Len(entries) :
        IsEntry(entries[i]) /\ IsEntry(entries[j]) /\ SameKey(entries[i].Key, entries[j].Key)
            => i = j

\* the canonical text KEY = "VALUE"
Canonical(key, value) == key \o <<" ", "=", " ">> \o Quoted(value)

\* this step is a call of op (every call sets last; a repeated identical call
\* that changes nothing is a stuttering step)
Calls(op) == last'.op = op

-----------------------------------------------------------------------------
(* C4. Case-insensitive identity: right after a successful Add(k, v), a    *)
(* Query with any case variant of k returns v; a Set(k2, v2) with a case   *)
(* variant k2 updates the entry Add stored (same number of lines, the      *)
(* entry is still the last one and holds v2), and the key that Save and    *)
(* Print write for it is still k, in the case Add was given.               *)
C4_Step ==
    last.op = "Add" /\ ~last.err =>
        /\ Calls("Query") /\ SameKey(last'.key, last.key) =>
              ~last'.err /\ last'.out = last.value
        /\ Calls("Set") /\ SameKey(last'.key, last.key) =>
              LET n == Len(doc) IN
              /\ Len(doc') = n
              /\ doc'[n].Key = last.key
              /\ doc'[n].Value = last'.value
              /\ SaveLines(doc')[n] = Canonical(last.key, last'.value)
              /\ PrintLines(doc')[n] = Canonical(last.key, last'.value)

C4_CaseInsensitiveIdentity == [][C4_Step]_vars

\* Add("s", v) on the empty document of a missing file, then Set("S", v2)
C4_Witness ==
    /\ ~file0.exists /\ pc = "open"
    /\ last.op = "Set" /\ last.key = <<"S">>
    /\ Len(doc) = 1 /\ doc[1].Key = <<"s">> /\ doc[1].Value = last.value

-----------------------------------------------------------------------------
(* C5 as claimed. In every reachable state of a document there is at most  *)
(* one Entry line per case-insensitive key.                                *)
C5_UniqueKeysAlways == UniqueKeys(doc)

(* C5, amended. When the loaded file holds at most one assignment line per *)
(* case-insensitive key, every state reached by Add, Set and Remove holds  *)
(* at most one Entry line per case-insensitive key.                        *)
C5_UniqueKeysPreserved ==
    UniqueKeys(ParseLines(file0.lines)) => UniqueKeys(doc)

\* a second key was added to a file that held one entry
C5_Witness ==
    /\ UniqueKeys(ParseLines(file0.lines)) /\ Len(file0.lines) = 1
    /\ last.op \in {"Add", "Set"} /\ ~last.err
    /\ Len(doc) = 2 /\ IsEntry(doc[1]) /\ IsEntry(doc[2])

-----------------------------------------------------------------------------
(* C6. Duplicate rejection: when the document holds an Entry whose key     *)
(* equals k case-insensitively, Add(k, v) returns an error and leaves the  *)
(* lines as they are; Set(k, v) in that state returns no error and leaves  *)
(* the number of lines as it is.                                           *)
C6_Step ==
    HasEntryKey(doc, last'.key) =>
        /\ Calls("Add") => last'.err /\ doc' = doc
        /\ Calls("Set") => ~last'.err /\ Len(doc') = Len(doc)

C6_DuplicateRejection == [][C6_Step]_vars

\* an Add was refused for a key stored in another case
C6_Witness ==
    /\ last.op = "Add" /\ last.err
    /\ \E i \in 1..Len(doc) :
          IsEntry(doc[i]) /\ SameKey(doc[i].Key, last.key) /\ doc[i].Key # last.key

-----------------------------------------------------------------------------
(* C7 as claimed. Query(k) and Remove(k) return the key-not-found error    *)
(* exactly when no Entry line has a key equal to k case-insensitively, and *)
(* then the lines are unchanged.                                           *)
C7_Step ==
    Calls("Query") \/ Calls("Remove") =>
        /\ last'.err <=> ~HasEntryKey(doc, last'.key)
        /\ last'.err => doc' = doc

C7_MissingKey == [][C7_Step]_vars

-----------------------------------------------------------------------------
(* C9. Set on the key of an existing Entry updates in place: the line      *)
(* count is unchanged, every other line is unchanged, the matched line     *)
(* keeps its position, stored key, inline-comment gap and inline comment,  *)
(* and a Save that follows writes for it                                   *)
(*   stored key + " = " + quoted, escaped new value + gap + comment.       *)
C9_Step ==
    /\ Calls("Set") /\ HasEntryKey(doc, last'.key) =>
          LET i == findEntryCaseInsensitive(doc, last'.key) IN
          /\ Len(doc') = Len(doc)
          /\ \A j \in 1..Len(doc) : j # i => doc'[j] = doc[j]
          /\ doc'[i].Key = doc[i].Key
          /\ doc'[i].Value = last'.value
          /\ doc'[i].InlineCommentSpace = doc[i].InlineCommentSpace
          /\ doc'[i].InlineComment = doc[i].InlineComment
    /\ last.op = "Set" /\ HasEntryKey(doc, last.key) /\ Calls("Save") /\ ~last'.err =>
          LET i == findEntryCaseInsensitive(doc, last.key) IN
          file'.lines[i] = Canonical(doc[i].Key, last.value)
                             \o doc[i].InlineCommentSpace \o doc[i].InlineComment

C9_SetInPlace == [][C9_Step]_vars

\* saved after a Set, in another case, of a loaded entry that carries an inline
\* comment after a gap of two spaces, with a value that holds a quote
C9_Witness ==
    /\ pc = "saved" /\ ~last.err
    /\ \E i \in 1..Len(doc) :
          /\ doc[i].Key = <<"S">> /\ doc[i].Value = <<Q, "2">>
          /\ doc[i].InlineCommentSpace = <<" ", " ">>
          /\ file.lines[i] = <<"S", " ", "=", " ", Q, BS, Q, "2", Q, " ", " ", "#", "c">>
          /\ file0.lines[i] = LUpper

-----------------------------------------------------------------------------
(* Vocabulary of the scripted sessions.                                    *)

\* the script has made exactly n calls and none of the first m returned an error
Ran(n, m) == Len(hist) = n /\ \A i \in 1..m : ~hist[i].err

\* a line the tool itself writes for some key and value: KEY = "VALUE"
IsCanonicalLine(l) ==
    \E v \in Texts : l = Canonical(<<"s">>, v)

\* every line is empty, a full-line comment, or a canonical assignment
CanonicalFile(f) ==
    /\ f.exists
    /\ \A i \in 1..Len(f.lines) :
          \/ f.lines[i] = <<>>
          \/ HasPrefix(TrimSpace(f.lines[i]), "#")
          \/ IsCanonicalLine(f.lines[i])

-----------------------------------------------------------------------------
(* C1 as claimed. After LoadDictionary, Set on one key K and Save, every   *)
(* line of the file other than the line of K is the input line, byte for   *)
(* byte.                                                                   *)
C1_OtherLinesIdentical ==
    Ran(3, 3) /\ hist[2].op = "Set" /\ file0.exists =>
        LET k == findEntryCaseInsensitive(ParseLines(file0.lines), hist[2].key) IN
        \A i \in 1..Len(file0.lines) : i # k => file.lines[i] = file0.lines[i]

-----------------------------------------------------------------------------
(* C2 as claimed. A file whose assignment lines are all canonical, with no *)
(* inline comment, is reproduced exactly by LoadDictionary then Save.      *)
C2_CanonicalRoundTrip ==
    Ran(2, 2) /\ CanonicalFile(file0) => file = file0

-----------------------------------------------------------------------------
(* C3 as claimed. After Add(k, v), Save, LoadDictionary and Query(k), the  *)
(* value returned is exactly v.                                            *)
C3_EscapingRoundTrip ==
    Ran(5, 4) /\ hist[2].op = "Add" =>
        ~last.err /\ last.out = hist[2].value

-----------------------------------------------------------------------------
(* C8. Missing file: an add or set with a valid KEY=VALUE argument on a    *)
(* path that does not exist, the operating system failing neither the open *)
(* nor the create, exits with code 0 and leaves a file of exactly the one  *)
(* line KEY = "VALUE"; an open or read failure other than the file not     *)
(* existing ends the run with the load error, exit code 1, no dictionary   *)
(* and the path untouched.                                                 *)
C8_MissingFile ==
    LET c  == cli["p1"]
        kv == parseKeyValue(c.arg)
    IN
    /\ c.pc = "done" /\ c.cmd \in {"add", "set"} /\ c.msg \notin {"usage", "invalid"}
         /\ ~c.start.exists /\ c.fault = "none"
       => c.exit = 0 /\ file = File(<<Canonical(kv.key, kv.value)>>, TRUE)
    /\ c.fault = "open"
       => c.pc = "done" /\ c.exit = 1 /\ c.msg = "load" /\ c.dict = <<>> /\ file = c.start

\* add FILE 'S = "2"' on a missing file has exited with code 0
C8_Witness ==
    LET c == cli["p1"] IN
    /\ c.pc = "done" /\ c.cmd = "add" /\ ~c.start.exists /\ c.exit = 0
    /\ file = File(<<<<"S", " ", "=", " ", Q, "2", Q>>>>, TRUE)

-----------------------------------------------------------------------------
(* C10. Nothing is written until Save: the file changes only in the step   *)
(* in which an invocation's Save succeeds, and an invocation that exits    *)
(* with code 1 for an invalid KEY=VALUE argument, a duplicate key on add   *)
(* or a missing key on remove or query leaves the file as it was when the  *)
(* invocation started.                                                     *)
C10_Step ==
    /\ file' # file =>
          cli["p1"].pc = "save" /\ cli'["p1"].pc = "done" /\ cli'["p1"].exit = 0
    /\ LET c == cli'["p1"] IN
       c.pc = "done" /\ c.exit = 1 /\ c.msg \in {"invalid", "exists", "missing"}
          => file' = c.start

C10_NothingWrittenUntilSave == [][C10_Step]_vars

\* a remove of a key the file does not hold has exited with code 1 on a file
\* whose lines Save would have rewritten
C10_Witness ==
    LET c == cli["p1"] IN
    /\ c.pc = "done" /\ c.cmd = "remove" /\ c.exit = 1 /\ c.msg = "missing"
    /\ file = c.start /\ file.exists /\ file.lines # SaveLines(ParseLines(file.lines))

-----------------------------------------------------------------------------
(* C11 as claimed. Save and Print emit the same text: in every state of a  *)
(* document, the lines Print prints are, line for line, the lines Save     *)
(* would write, the lines a successful Save writes are the lines Print     *)
(* would print, and neither call changes the document.                     *)
C11_Step ==
    /\ Calls("Print") => last'.out = SaveLines(doc) /\ doc' = doc
    /\ Calls("Save") /\ ~last'.err => file'.lines = PrintLines(doc) /\ doc' = doc

C11_SaveEqualsPrint == [][C11_Step]_vars

-----------------------------------------------------------------------------
(* C12 as claimed. Line classification: every stored line is exactly one   *)
(* of Blank, Comment or Entry (a line that is neither blank nor comment),  *)
(* and a line is an Entry if and only if its key is not empty, whatever    *)
(* line the parser was given.                                              *)
C12_LineClassification ==
    \A i \in 1..Len(doc) :
        LET e == doc[i] IN
        /\ ~(e.IsBlank /\ e.IsComment)
        /\ (~e.IsBlank /\ ~e.IsComment) <=> e.Key # <<>>

-----------------------------------------------------------------------------
(* C13 as claimed. The lookups match Entry lines only: for every key, the  *)
(* empty one included, a Query that succeeds has read an Entry line, and   *)
(* no Set and no Remove changes or deletes a blank line or a full-line     *)
(* comment.                                                                *)
NonEntries(entries) == SelectSeq(entries, LAMBDA e : e.IsBlank \/ e.IsComment)

C13_Step ==
    /\ Calls("Set") \/ Calls("Remove") => NonEntries(doc') = NonEntries(doc)
    /\ Calls("Query") /\ ~last'.err => HasEntryKey(doc, last'.key)

C13_LookupMatchesEntriesOnly == [][C13_Step]_vars

-----------------------------------------------------------------------------
(* C14 as claimed. One matching rule: in every state and for every key k,  *)
(* Remove(k) succeeds exactly when KeyExists(k) is true, and the line it   *)
(* deletes is the line Query(k) reads and Set(k, v) updates.               *)
C14_Step ==
    Calls("Remove") =>
        LET i == findEntryCaseInsensitive(doc, last'.key) IN
        /\ ~last'.err <=> KeyExists(doc, last'.key)
        /\ ~last'.err => i # 0 /\ doc' = Delete(doc, i - 1)

C14_OneMatchingRule == [][C14_Step]_vars

-----------------------------------------------------------------------------
(* C15 as claimed. Remove deletes exactly one line: when Remove(k)         *)
(* succeeds the document has one line fewer, the deleted line is the first *)
(* Entry whose key matches k case-insensitively (here in the widest sense, *)
(* equal under Unicode case folding), and the remaining lines keep their   *)
(* content and their order.                                                *)
C15_Step ==
    Calls("Remove") /\ ~last'.err =>
        /\ Len(doc') = Len(doc) - 1
        /\ \E i \in 1..Len(doc) :
              /\ IsEntry(doc[i]) /\ EqualFold(doc[i].Key, last'.key)
              /\ \A j \in 1..(i - 1) :
                    ~(IsEntry(doc[j]) /\ EqualFold(doc[j].Key, last'.key))
              /\ doc' = SubSeq(doc, 1, i - 1) \o SubSeq(doc, i + 1, Len(doc))

C15_RemoveDeletesOneEntry == [][C15_Step]_vars

-----------------------------------------------------------------------------
(* C16. Quoted-value parsing. For a line that is not blank, does not start *)
(* with '#' and holds a '=', whose text after the first '=' starts, once   *)
(* trimmed, with a double quote: the value ends at the first later double  *)
(* quote that no backslash immediately precedes; the stored value is the   *)
(* text between the two quotes with \" replaced by "; a '#' before the     *)
(* closing quote is part of the value; the first '#' after the closing     *)
(* quote starts the inline comment and the exact text between the closing  *)
(* quote and that '#' is the inline-comment gap (both empty when no '#'    *)
(* follows); when no closing quote is found the whole trimmed right part   *)
(* is the value and there is no inline comment.                            *)

\* the text after the first '=' of a line, trimmed
RightPart(line) == TrimSpace(SubSeq(line, Index(line, "=") + 2, Len(line)))

\* position c (1-based) of right holds a double quote that closes the value
ClosesAt(right, c) == c >= 2 /\ right[c] = Q /\ right[c - 1] # BS

\* position h (1-based) is the first '#' of s
FirstHashAt(s, h) == s[h] = "#" /\ \A j \in 1..(h - 1) : s[j] # "#"

C16_QuotedValueParsing ==
    LET line  == file0.lines[1]
        right == RightPart(line)
    IN
    /\ Ran(1, 1) /\ file0.exists
    /\ TrimSpace(line) # <<>> /\ ~HasPrefix(TrimSpace(line), "#") /\ Contains(line, "=")
    /\ HasPrefix(right, Q)
    => LET e == doc[1]
           closers == {c \in 1..Len(right) : ClosesAt(right, c)}
       IN
       IF closers = {}
       THEN e.Value = right /\ e.InlineComment = <<>> /\ e.InlineCommentSpace = <<>>
       ELSE \E c \in closers :
              /\ \A c2 \in closers : c <= c2
              /\ e.Value = unescapeQuotes(SubSeq(right, 2, c - 1))
              /\ LET rest == SubSeq(right, c + 1, Len(right)) IN
                 IF Contains(rest, "#")
                 THEN \E h \in 1..Len(rest) :
                        /\ FirstHashAt(rest, h)
                        /\ e.InlineCommentSpace = SubSeq(rest, 1, h - 1)
                        /\ e.InlineComment = SubSeq(rest, h, Len(rest))
                 ELSE e.InlineComment = <<>> /\ e.InlineCommentSpace = <<>>

\* the line  s="#"#  was loaded: a '#' inside the quotes, one after them
C16_Witness ==
    /\ Ran(1, 1)
    /\ file0.lines[1] = <<"s", "=", Q, "#", Q, "#">>
    /\ doc[1].Value = <<"#">>
    /\ doc[1].InlineCommentSpace = <<>> /\ doc[1].InlineComment = <<"#">>

\* the line  s="\""  was loaded: an escaped quote inside the quotes
C16_WitnessEscaped ==
    /\ Ran(1, 1)
    /\ file0.lines[1] = <<"s", "=", Q, BS, Q, Q>>
    /\ doc[1].Value = <<Q>>

-----------------------------------------------------------------------------
(* C17. Set on an absent key is Add that cannot fail: when no stored line  *)
(* has a key equal to k case-insensitively (the lookup of Set finds        *)
(* nothing), Set(k, v) and Add(k, v) return no error and produce the same  *)
(* document: the old lines unchanged, followed by one new Entry with key k *)
(* exactly as given, value v, no inline comment, and the raw text          *)
(* k = "v" with the quotes inside v escaped.                               *)
NoLineMatches(entries, key) ==
    \A i \in 1..Len(entries) : ~SameKey(entries[i].Key, key)

\* the document after the append of the Entry for k and v
Appended(entries, k, v) ==
    Append(entries,
           [Original |-> Canonical(k, v), Key |-> k, Value |-> v,
            InlineComment |-> <<>>, InlineCommentSpace |-> <<>>,
            IsComment |-> FALSE, IsBlank |-> FALSE])

C17_Step ==
    NoLineMatches(doc, last'.key) =>
        /\ Calls("Set") =>
              /\ ~last'.err /\ doc' = Appended(doc, last'.key, last'.value)
              /\ Add(doc, last'.key, last'.value) = [entries |-> doc', err |-> FALSE]
        /\ Calls("Add") =>
              /\ ~last'.err /\ doc' = Appended(doc, last'.key, last'.value)
              /\ Set(doc, last'.key, last'.value) = doc'

-----------------------------------------------------------------------------
(* SpecRace: two invocations of the tool on the same path, running at the  *)
(* same time. Nothing orders them: each LoadDictionary and each Save is    *)
(* one step, and the steps of the two interleave in every way.             *)

RaceCommands == {"add", "set", "remove"}

\* arguments:  s=1   b=2   s
RaceArgs == {<<"s", "=", "1">>, <<"b", "=", "2">>, <<"s">>}

InitRace ==
    /\ file \in FilesOver({LCanon, LOther}, MaxLines)
    /\ file.nl /\ Distinct(file.lines)
    /\ InitSession

NextRace ==
    \/ \E p \in Procs, cmd \in RaceCommands, arg \in RaceArgs : Invoke(p, cmd, 2, arg)
    \/ \E p \in Procs, io \in IOs : CliLoad(p, io)
    \/ \E p \in Procs, io \in IOs : CliSave(p, io)

SpecRace == InitRace /\ [][NextRace]_vars

-----------------------------------------------------------------------------
(* C18. Racing invocations are last-writer-wins. An invocation that has    *)
(* loaded and mutated, and whose os.Create the operating system does not   *)
(* fail, finishes with exit code 0 and no error whatever the other         *)
(* invocation did to the path in between, and its Save leaves the file as  *)
(* exactly the serialisation of its own document; the file changes in no   *)
(* other step. So after both have finished the file is the serialisation   *)
(* of the document of the one whose Save ran last, and the update of the   *)
(* other can be lost.                                                      *)
Saves(p) == cli[p].pc = "save" /\ cli'[p].pc = "done"

C18_Step ==
    /\ \A p \in Procs :
          Saves(p) /\ cli'[p].fault = "none" =>
              /\ cli'[p].exit = 0 /\ cli'[p].msg = ""
              /\ file' = File(SaveLines(cli[p].dict), TRUE)
    /\ file' # file => \E p \in Procs : Saves(p) /\ cli'[p].exit = 0

C18_LastWriterWins == [][C18_Step]_vars

\* set s=1 and set b=2 on a missing path have both exited with code 0, and the
\* file holds the line of b only: the update of the first is lost
C18_Witness ==
    /\ ~file0.exists
    /\ cli["p1"].pc = "done" /\ cli["p1"].cmd = "set" /\ cli["p1"].key = <<"s">>
    /\ cli["p2"].pc = "done" /\ cli["p2"].cmd = "set" /\ cli["p2"].key = <<"b">>
    /\ cli["p1"].exit = 0 /\ cli["p2"].exit = 0
    /\ cli["p1"].msg = "" /\ cli["p2"].msg = ""
    /\ file = File(<<<<"b", " ", "=", " ", Q, "2", Q>>>>, TRUE)

-----------------------------------------------------------------------------
(* C19 as claimed. Canonicalisation is idempotent: the file LoadDictionary *)
(* then Save produce is a fixed point, a second LoadDictionary and Save    *)
(* write it again byte for byte.                                           *)
C19_Step ==
    Ran(3, 3) /\ Calls("Save") /\ ~last'.err => file' = file

C19_CanonicalisationIdempotent == [][C19_Step]_vars

-----------------------------------------------------------------------------
(* C20 as claimed. Remove makes the key absent: right after Remove(k)      *)
(* returned success, KeyExists(k) is false and Query(k) returns the        *)
(* key-not-found error.                                                    *)
C20_Step ==
    /\ Calls("Remove") /\ ~last'.err =>
          ~KeyExists(doc', last'.key) /\ Query(doc', last'.key).err
    /\ last.op = "Remove" /\ ~last.err /\ Calls("Query") /\ last'.key = last.key =>
          last'.err

C20_RemoveMakesKeyAbsent == [][C20_Step]_vars

====
